---- MODULE Spec2Model ----
(***************************************************************************)
(* Top-K nearest vector search of nearest_performance.js: cos_sim,         *)
(* results_acc and the two Collection searches nearest_for_loop and        *)
(* nearest_reduce; cos_sim_loop of cos_sim_performance.js for comparison.  *)
(*                                                                         *)
(* JavaScript values are records [t, v]: t is the type tag and v the       *)
(* elements of an array (<<>> for the other types).                        *)
(* A score is an integer: the cosine dot/(sqrt(normA)*sqrt(normB)) is      *)
(* held as sgn(dot)*dot^2/(normA*normB) in units of 1/ScoreScale, which    *)
(* orders the scores as the cosine does; the code only compares scores.    *)
(***************************************************************************)
EXTENDS Integers, Sequences, FiniteSets

VARIABLES
  items,         \* Collection.items, in key order (Object.values)
  vec,           \* the query argument of both searches
  filter,        \* the filter argument of both searches
  out_for_loop,  \* outcome of nearest_for_loop, "pending" until called
  out_reduce,    \* outcome of nearest_reduce, "pending" until called
  ct,            \* capacity passed to results_acc
  offers,        \* the result objects offered to the accumulators
  pendA,         \* results not yet offered to accA
  pendB,         \* results not yet offered to accB
  accA,          \* an accumulator
  accB,          \* a second accumulator, offered the same results in its own order
  lastA          \* the last results_acc call on accA: its arguments

searchVars == <<items, vec, filter, out_for_loop, out_reduce>>
accVars == <<ct, offers, pendA, pendB, accA, accB, lastA>>
vars == <<items, vec, filter, out_for_loop, out_reduce,
          ct, offers, pendA, pendB, accA, accB, lastA>>

\* ---------------------------------------------------------------- bounds
MaxItems == 3
MaxLimit == 2
MaxOffers == 3
MaxK == 2
ScoreScale == 12
DefaultLimit == 50

\* ------------------------------------------------------------- JS values
Undefined == [t |-> "undefined", v |-> <<>>]
Obj == [t |-> "object", v |-> <<>>]
Arr(s) == [t |-> "array", v |-> s]

Truthy(x) == x.t # "undefined"
IsArray(x) == x.t = "array"

Range(s) == {s[i] : i \in DOMAIN s}
Min2(a, b) == IF a <= b THEN a ELSE b

\* ----------------------------------------------------------------cos_sim
\* Number of iterations of `for (i = 0; i < a.length; i++)`: a.length is
\* undefined when a is not an array and `0 < undefined` is false.
LoopCount(a) == IF IsArray(a) THEN Len(a.v) ELSE 0

RECURSIVE Dot(_, _, _)
Dot(a, b, n) == IF n = 0 THEN 0 ELSE Dot(a, b, n - 1) + a[n] * b[n]

\* b[i] is undefined past the end of b, and number * undefined is NaN.
IsNaN(a, b) == \E i \in 1..LoopCount(a) : i > Len(b.v)

Sgn(x) == IF x > 0 THEN 1 ELSE IF x < 0 THEN -1 ELSE 0

cos_sim(a, b) ==
  LET n == LoopCount(a)
  IN IF IsNaN(a, b) THEN 0   \* denom is NaN, which is falsy
     ELSE LET dot == Dot(a.v, b.v, n)
              normA == Dot(a.v, a.v, n)
              normB == Dot(b.v, b.v, n)
          IN IF normA * normB = 0 THEN 0   \* denom is 0, which is falsy
             ELSE (Sgn(dot) * dot * dot * ScoreScale) \div (normA * normB)

\* cos_sim_loop refuses vectors of different lengths.
cos_sim_loop(a, b) ==
  IF Len(a.v) # Len(b.v)
  THEN [kind |-> "throw", score |-> 0]
  ELSE LET n == Len(a.v)
           dot == Dot(a.v, b.v, n)
           m1 == Dot(a.v, a.v, n)
           m2 == Dot(b.v, b.v, n)
       IN [kind |-> "return",
           score |-> IF m1 = 0 \/ m2 = 0 THEN 0
                     ELSE (Sgn(dot) * dot * dot * ScoreScale) \div (m1 * m2)]

\* ------------------------------------------------------------ results_acc
\* acc.results is a Set: a sequence in insertion order without repeats.
\* acc.minResult is <<>> for null and <<r>> for the result r.
EmptyAcc == [min |-> 0, results |-> <<>>, minResult |-> <<>>]

SetAdd(s, r) == IF r \in Range(s) THEN s ELSE Append(s, r)
SetDelete(s, m) == SelectSeq(s, LAMBDA x : <<x>> # m)

\* Array.from(results).reduce((min, curr) => curr.score < min.score ? curr : min)
RECURSIVE ReduceMin(_)
ReduceMin(s) ==
  IF Len(s) = 1 THEN s[1]
  ELSE LET min == ReduceMin(SubSeq(s, 1, Len(s) - 1))
           curr == s[Len(s)]
       IN IF curr.score < min.score THEN curr ELSE min

\* A slip at line 65-66: the cached minimum is set to the new result.
results_acc_stale(_acc, result, ct_) ==
  IF Len(_acc.results) < ct_
  THEN IF _acc.minResult = <<>> \/ result.score < _acc.minResult[1].score
       THEN [min |-> result.score, results |-> SetAdd(_acc.results, result),
             minResult |-> <<result>>]
       ELSE [_acc EXCEPT !.results = SetAdd(_acc.results, result)]
  ELSE IF result.score > _acc.min
       THEN LET rs == SetDelete(SetAdd(_acc.results, result), _acc.minResult)
            IN [min |-> result.score, results |-> rs, minResult |-> <<result>>]
       ELSE _acc

\* A slip at line 57: the comparison reversed, the cache follows the maximum.
results_acc_max(_acc, result, ct_) ==
  IF Len(_acc.results) < ct_
  THEN IF _acc.minResult = <<>> \/ result.score > _acc.minResult[1].score
       THEN [min |-> result.score, results |-> SetAdd(_acc.results, result),
             minResult |-> <<result>>]
       ELSE [_acc EXCEPT !.results = SetAdd(_acc.results, result)]
  ELSE IF result.score > _acc.min
       THEN LET rs == SetDelete(SetAdd(_acc.results, result), _acc.minResult)
                m == ReduceMin(rs)
            IN [min |-> m.score, results |-> rs, minResult |-> <<m>>]
       ELSE _acc

\* A slip at line 61: >= for >, a tie evicts.
results_acc_ge(_acc, result, ct_) ==
  IF Len(_acc.results) < ct_
  THEN IF _acc.minResult = <<>> \/ result.score < _acc.minResult[1].score
       THEN [min |-> result.score, results |-> SetAdd(_acc.results, result),
             minResult |-> <<result>>]
       ELSE [_acc EXCEPT !.results = SetAdd(_acc.results, result)]
  ELSE IF result.score >= _acc.min
       THEN LET rs == SetDelete(SetAdd(_acc.results, result), _acc.minResult)
                m == ReduceMin(rs)
            IN [min |-> m.score, results |-> rs, minResult |-> <<m>>]
       ELSE _acc

\* A slip at line 63: the delete left out.
results_acc_nodelete(_acc, result, ct_) ==
  IF Len(_acc.results) < ct_
  THEN IF _acc.minResult = <<>> \/ result.score < _acc.minResult[1].score
       THEN [min |-> result.score, results |-> SetAdd(_acc.results, result),
             minResult |-> <<result>>]
       ELSE [_acc EXCEPT !.results = SetAdd(_acc.results, result)]
  ELSE IF result.score > _acc.min
       THEN LET rs == SetAdd(_acc.results, result)
                m == ReduceMin(rs)
            IN [min |-> m.score, results |-> rs, minResult |-> <<m>>]
       ELSE _acc

results_acc(_acc, result, ct_) ==
  IF Len(_acc.results) < ct_
  THEN IF _acc.minResult = <<>> \/ result.score < _acc.minResult[1].score
       THEN [min |-> result.score, results |-> SetAdd(_acc.results, result),
             minResult |-> <<result>>]
       ELSE [_acc EXCEPT !.results = SetAdd(_acc.results, result)]
  ELSE IF result.score > _acc.min
       THEN LET rs == SetDelete(SetAdd(_acc.results, result), _acc.minResult)
                m == ReduceMin(rs)
            IN [min |-> m.score, results |-> rs, minResult |-> <<m>>]
       ELSE _acc

\* ------------------------------------------------------------- Collection
\* An outcome of a call: not yet made, a returned array, or a thrown Error.
Pending == [kind |-> "pending", value |-> <<>>, error |-> ""]
Return(s) == [kind |-> "return", value |-> s, error |-> ""]
Throw(e) == [kind |-> "throw", value |-> <<>>, error |-> e]

\* const { limit = 50 } = filter
Limit(f) == IF f.limit.t = "undefined" THEN DefaultLimit ELSE f.limit.n

\* A slip at line 103: the filter on item.vec left out.
filter_vec_all(its) == its

\* Object.values(this.items).filter(item => item.vec)
filter_vec(its) == SelectSeq(its, LAMBDA item : Truthy(item.vec))

\* Array.prototype.sort is stable; the comparator is (a, b) => b.score - a.score.
Compare(a, b) == b.score - a.score

InsertSorted(sorted, r) ==
  LET pos == Cardinality({i \in DOMAIN sorted : Compare(sorted[i], r) <= 0})
  IN SubSeq(sorted, 1, pos) \o <<r>> \o SubSeq(sorted, pos + 1, Len(sorted))

RECURSIVE SortDesc(_)
SortDesc(s) ==
  IF s = <<>> THEN <<>>
  ELSE InsertSorted(SortDesc(SubSeq(s, 1, Len(s) - 1)), s[Len(s)])

\* The for loop of nearest_for_loop over the first n filtered items.
RECURSIVE ScanLoop(_, _, _, _)
ScanLoop(its, v, limit, n) ==
  IF n = 0 THEN EmptyAcc
  ELSE LET item == its[n]
           score == cos_sim(v, item.vec)
           result == [item |-> item, score |-> score]
       IN results_acc(ScanLoop(its, v, limit, n - 1), result, limit)

nearest_for_loop(its, v, f) ==
  IF ~Truthy(v) \/ ~IsArray(v)
  THEN Throw("Invalid vector input to nearest_for_loop()")
  ELSE LET limit == Limit(f)
           eligible == filter_vec(its)
           acc == ScanLoop(eligible, v, limit, Len(eligible))
       IN Return(SortDesc(acc.results))

\* The reduce callback of nearest_reduce over the first n items.
RECURSIVE ScanReduce(_, _, _, _)
ScanReduce(its, v, limit, n) ==
  IF n = 0 THEN EmptyAcc
  ELSE LET acc == ScanReduce(its, v, limit, n - 1)
           item == its[n]
       IN IF ~Truthy(item.vec) THEN acc
          ELSE results_acc(acc, [item |-> item, score |-> cos_sim(v, item.vec)], limit)

nearest_reduce(its, v, f) ==
  IF ~Truthy(v)
  THEN Return(<<>>)
  ELSE LET limit == Limit(f)
           nearest == ScanReduce(its, v, limit, Len(its))
       IN Return(nearest.results)

\* ------------------------------------------------------------ input sets
VecPool == {<<1, 0>>, <<0, 1>>, <<1, 1>>, <<-1, 0>>, <<0, 0>>, <<1>>}
ItemVecs == {Arr(s) : s \in VecPool} \cup {Undefined}
Queries == {Arr(s) : s \in VecPool} \cup {Arr(<<>>), Undefined, Obj}
Filters == {[limit |-> [t |-> "number", n |-> k]] : k \in -1..MaxLimit}
             \cup {[limit |-> [t |-> "undefined", n |-> 0]]}

\* new Collection(dataset): item i of the dataset under key i.
Collection(vs) == [i \in DOMAIN vs |-> [vec |-> vs[i], data |-> i]]
Collections == UNION {{Collection(vs) : vs \in [1..n -> ItemVecs]} : n \in 0..MaxItems}

Scores == {-1, 0, 1, 2}
OfferSets == UNION {{ {[item |-> [vec |-> Undefined, data |-> i], score |-> sc[i]] : i \in 1..n}
                      : sc \in [1..n -> Scores]} : n \in 0..MaxOffers}
NoCall == [called |-> FALSE, before |-> EmptyAcc, result |-> <<>>]

\* ------------------------------------------------- the searches, side by side
Init ==
  /\ items \in Collections
  /\ vec \in Queries
  /\ filter \in Filters
  /\ out_for_loop = Pending
  /\ out_reduce = Pending
  /\ ct = 0 /\ offers = {} /\ pendA = {} /\ pendB = {}
  /\ accA = EmptyAcc /\ accB = EmptyAcc /\ lastA = NoCall

CallForLoop ==
  /\ out_for_loop = Pending
  /\ out_for_loop' = nearest_for_loop(items, vec, filter)
  /\ UNCHANGED <<items, vec, filter, out_reduce>>
  /\ UNCHANGED accVars

CallReduce ==
  /\ out_reduce = Pending
  /\ out_reduce' = nearest_reduce(items, vec, filter)
  /\ UNCHANGED <<items, vec, filter, out_for_loop>>
  /\ UNCHANGED accVars

Next == CallForLoop \/ CallReduce

Spec == Init /\ [][Next]_vars

\* ------------------------------------------- the accumulator, call by call
InitAcc ==
  /\ ct \in 0..MaxK
  /\ offers \in OfferSets
  /\ pendA = offers /\ pendB = offers
  /\ accA = EmptyAcc /\ accB = EmptyAcc /\ lastA = NoCall
  /\ items = <<>> /\ vec = Undefined
  /\ filter = [limit |-> [t |-> "undefined", n |-> 0]]
  /\ out_for_loop = Pending /\ out_reduce = Pending

OfferA ==
  \E r \in pendA :
    /\ accA' = results_acc(accA, r, ct)
    /\ lastA' = [called |-> TRUE, before |-> accA, result |-> <<r>>]
    /\ pendA' = pendA \ {r}
    /\ UNCHANGED <<ct, offers, pendB, accB>>
    /\ UNCHANGED searchVars

OfferB ==
  \E r \in pendB :
    /\ accB' = results_acc(accB, r, ct)
    /\ pendB' = pendB \ {r}
    /\ UNCHANGED <<ct, offers, pendA, accA, lastA>>
    /\ UNCHANGED searchVars

NextAcc == OfferA \/ OfferB

SpecAcc == InitAcc /\ [][NextAcc]_vars

\* ------------------------------------------------------------- properties
Called(out) == out # Pending
Scanned == filter_vec(items)
HeldScores(acc) == {acc.results[i].score : i \in DOMAIN acc.results}
CountOf(acc, s) == Cardinality({i \in DOMAIN acc.results : acc.results[i].score = s})

\* The cache of a full accumulator: its minResult is held and holds the
\* smallest held score, which is min.
CacheRight(acc) ==
  /\ acc.minResult # <<>>
  /\ acc.minResult[1] \in Range(acc.results)
  /\ acc.minResult[1].score = acc.min
  /\ \A s \in HeldScores(acc) : acc.min <= s

AccBounded(acc) ==
  /\ Len(acc.results) <= ct
  /\ Len(acc.results) = ct => CacheRight(acc)

\* C1: with a capacity K >= 1, after any sequence of results_acc calls on an
\* empty accumulator with distinct results, at most K results are held, and
\* when K are held min is the smallest held score and minResult is a held
\* result with that score.
C1_AccumulatorInvariant == ct >= 1 => AccBounded(accA) /\ AccBounded(accB)

\* C1 witness: a call on a full accumulator evicted, and the accumulator is
\* full again.
C1_Witness ==
  /\ ct >= 1
  /\ lastA.called
  /\ Len(lastA.before.results) = ct
  /\ accA # lastA.before
  /\ Len(accA.results) = ct
  /\ accA.min > lastA.before.min

ValidQuery == IsArray(vec) /\ Len(vec.v) >= 1

\* The outcome is the top `limit` of the scanned items: a returned array of
\* min(limit, eligible) distinct entries, each an eligible item with its
\* score, no returned score below the score of an eligible item left out.
TopK(out) ==
  /\ out.kind = "return"
  /\ Len(out.value) <= Limit(filter)
  /\ Len(out.value) = Min2(Limit(filter), Cardinality({it \in Range(items) : Truthy(it.vec)}))
  /\ \A i, j \in DOMAIN out.value : out.value[i].item = out.value[j].item => i = j
  /\ \A r \in Range(out.value) :
       /\ r.item \in Range(items)
       /\ Truthy(r.item.vec)
       /\ r.score = cos_sim(vec, r.item.vec)
       /\ \A it \in Range(items) :
            (Truthy(it.vec) /\ \A q \in Range(out.value) : q.item # it)
              => r.score >= cos_sim(vec, it.vec)

\* C2: for a valid query and a limit >= 1, each search returns at most limit
\* entries, and every returned score is >= the score of every eligible item
\* that was not returned.
C2_TopKCorrect ==
  (ValidQuery /\ Limit(filter) >= 1) =>
     /\ Called(out_for_loop) => TopK(out_for_loop)
     /\ Called(out_reduce) => TopK(out_reduce)

\* C2 witness: both searches returned, and an eligible item with a lower
\* score than a returned one was left out of both.
C2_Witness ==
  /\ ValidQuery /\ Limit(filter) >= 1
  /\ Called(out_for_loop) /\ Called(out_reduce)
  /\ Len(out_for_loop.value) = Limit(filter)
  /\ \E it \in Range(items) :
       /\ Truthy(it.vec)
       /\ \A q \in Range(out_for_loop.value) \cup Range(out_reduce.value) :
            q.item # it /\ q.score > cos_sim(vec, it.vec)

SortedDesc(s) == \A i \in 1..(Len(s) - 1) : s[i].score >= s[i + 1].score

\* C3: the sequence returned by nearest_for_loop and by nearest_reduce is
\* sorted by descending score.
C3_OutputSorted ==
  /\ SortedDesc(out_for_loop.value)
  /\ SortedDesc(out_reduce.value)

\* C4: a results_acc call on a full accumulator (|results| = K) with a score
\* equal to or below min leaves results, minResult and min as they were.
C4_TieKeepsAccumulator ==
  (/\ lastA.called
   /\ Len(lastA.before.results) = ct
   /\ lastA.result[1].score <= lastA.before.min)
    => accA = lastA.before

\* C4 witness: the last call offered a full accumulator of capacity >= 1 a
\* score equal to its minimum.
C4_Witness ==
  /\ lastA.called
  /\ ct >= 1
  /\ Len(lastA.before.results) = ct
  /\ lastA.result[1].score = lastA.before.min
  /\ lastA.result[1] \notin Range(accA.results)

\* C5: a search called with limit <= 0 fails, it returns no result sequence.
C5_NonPositiveLimitFails ==
  Limit(filter) <= 0 =>
     /\ Called(out_for_loop) => out_for_loop.kind = "throw"
     /\ Called(out_reduce) => out_reduce.kind = "throw"

InvalidQuery == ~Truthy(vec) \/ ~IsArray(vec) \/ Len(vec.v) = 0

\* C6: a search whose query is missing, empty or not an array fails, it
\* returns no result sequence, not even an empty one.
C6_InvalidQueryFails ==
  InvalidQuery =>
     /\ Called(out_for_loop) => out_for_loop.kind = "throw"
     /\ Called(out_reduce) => out_reduce.kind = "throw"

\* The scan meets an item whose vector the similarity refuses to compare
\* with the query.
Mismatch ==
  /\ ValidQuery
  /\ \E it \in Range(items) :
       Truthy(it.vec) /\ cos_sim_loop(vec, it.vec).kind = "throw"

\* C7: a search whose scan reaches an item with a vector of another length
\* than the query fails: no result sequence is returned.
C7_DimensionMismatchAborts ==
  Mismatch =>
     /\ Called(out_for_loop) => out_for_loop.kind = "throw"
     /\ Called(out_reduce) => out_reduce.kind = "throw"

WithoutVecless == SelectSeq(items, LAMBDA it : it.vec.t # "undefined")

SkipsVecless(out) ==
  /\ IsArray(vec) => out.kind = "return"
  /\ \A r \in Range(out.value) : r.item.vec.t # "undefined"

\* C8: items without a vec are skipped: a search with an array query
\* returns, no returned entry is an item without a vec, and the outcome is
\* the outcome of the same search on the collection without those items.
C8_VeclessItemsSkipped ==
  /\ Called(out_for_loop) =>
       /\ SkipsVecless(out_for_loop)
       /\ out_for_loop = nearest_for_loop(WithoutVecless, vec, filter)
  /\ Called(out_reduce) =>
       /\ SkipsVecless(out_reduce)
       /\ out_reduce = nearest_reduce(WithoutVecless, vec, filter)

\* C8 witness: both searches returned entries from a collection that has
\* items with and items without a vec.
C8_Witness ==
  /\ \E it \in Range(items) : ~Truthy(it.vec)
  /\ \E it \in Range(items) : Truthy(it.vec)
  /\ ValidQuery
  /\ out_for_loop.kind = "return" /\ out_for_loop.value # <<>>
  /\ out_reduce.kind = "return" /\ out_reduce.value # <<>>

\* C9: on the same collection, query and limit, nearest_for_loop and
\* nearest_reduce both fail or both return the same sequence.
C9_VariantsAgree ==
  (Called(out_for_loop) /\ Called(out_reduce)) => out_for_loop = out_reduce

Drained == pendA = {} /\ pendB = {}

\* C10: with a capacity K >= 1, two accumulators offered the same results in
\* any two orders end with the same multiset of scores and with
\* min(K, number of offers) results each.
C10_OrderIndependent ==
  (ct >= 1 /\ Drained) =>
     /\ \A r \in offers : CountOf(accA, r.score) = CountOf(accB, r.score)
     /\ Len(accA.results) = Min2(ct, Cardinality(offers))
     /\ Len(accB.results) = Min2(ct, Cardinality(offers))

\* C10 witness: both accumulators are through, they dropped offers, and they
\* hold different results.
C10_Witness ==
  /\ ct >= 1 /\ Drained
  /\ Cardinality(offers) > ct
  /\ Range(accA.results) # Range(accB.results)

====
